---- MODULE Spec2Model ----
(***************************************************************************)
(* pulpsim.py: one liquor compartment exchanging mass with a chain of     *)
(* wood compartments, three-phase delignification kinetics, a ramp/hold   *)
(* temperature schedule and the flat state codec used by the integrator.  *)
(*                                                                         *)
(* Numbers.  The script computes in floating point; the model computes in *)
(* fixed point, every quantity an integer count of a fixed unit, every    *)
(* product rounded (floored) back to its unit:                            *)
(*   moles and "concentrations" (the script feeds moles where it says     *)
(*       concentrations)                       1e-2   (0.01 mol = 1)      *)
(*   kr1, kr11, kr12                           1e-6                       *)
(*   kr2, D, K, fractional powers, kappa       1e-2                       *)
(*   kr3, kr4                                  1e-5                       *)
(*   rates r1 r2 r3, every mole flow (mol/s)   1e-8                       *)
(*   temperatures (K), times (s), areas, volumes, masses: units           *)
(* A float that is not a number is the value NaN, which every arithmetic  *)
(* operation propagates, as IEEE arithmetic does.                         *)
(***************************************************************************)
EXTENDS Integers, Sequences, FiniteSets, TLC

VARIABLES
    parameters,   \* the dictionary read from parameters.csv
    yg,           \* the module-level names y, g: <<>> while unbound, else <<y, g>>
    pc,           \* position of the script
    temp_store,   \* diagnostic history of temperatures
    kappa_store,  \* diagnostic history of kappa numbers
    tcalls,       \* the times at which the schedule was evaluated, in call order
    frame,        \* locals and return value of the latest dxdt call
    prev,         \* locals and return value of the dxdt call before it
    liquor,       \* codec: the liquor vector handed to flatx
    wood,         \* codec: the wood matrix handed to flatx
    flat,         \* codec: the flat vector flatx returned
    decoded       \* codec: the pair unflatx returned

vars == <<parameters, yg, pc, temp_store, kappa_store, tcalls, frame, prev,
          liquor, wood, flat, decoded>>

(***************************************************************************)
(* Bounds of the model.                                                    *)
(***************************************************************************)
MaxCalls == 3      \* dxdt calls the integrator makes in one run
MaxLignin == 2     \* largest lignin content of one wood compartment (0.01 mol)
MaxTime == 122     \* latest time (s) at which the schedule alone is evaluated

(***************************************************************************)
(* Floating-point values.                                                  *)
(***************************************************************************)
NaN == -2147483647 - 1

Add(a, b) == IF a = NaN \/ b = NaN THEN NaN ELSE a + b
Sub(a, b) == IF a = NaN \/ b = NaN THEN NaN ELSE a - b
Mul(a, b) == IF a = NaN \/ b = NaN THEN NaN ELSE a * b
\* a / b for a quotient that is rounded to the unit of a
Quot(a, b) == IF a = NaN \/ b = NaN THEN NaN ELSE a \div b

RECURSIVE SumSeq(_)
SumSeq(s) == IF s = <<>> THEN 0 ELSE Add(Head(s), SumSeq(Tail(s)))

RECURSIVE Flatten(_)
\* the rows of a matrix one after the other (row-major, numpy's C order)
Flatten(m) == IF m = <<>> THEN <<>> ELSE Head(m) \o Flatten(Tail(m))

(***************************************************************************)
(* Module-level constants of the script.                                   *)
(***************************************************************************)
components == <<"Lignin", "Carbohydrate", "Alkali", "Sulfur">>
componentsMM == <<1, 1, 1, 1>>
Ncomponents == Len(components)
Comps == 1 .. Ncomponents
\* S[c][k]: stoichiometric coefficient of component c in reaction k
S == << <<-1, 0, 0>>, <<0, -1, 0>>, <<0, 0, -1>>, <<0, 0, 0>> >>
Nreactions == Len(S[1])

Ncomp(p) == p.Ncompartments
wood_compartment_volume(p) == p.wood_volume \div p.Ncompartments

(***************************************************************************)
(* State codec.                                                            *)
(***************************************************************************)
flatx_colmajor(lq, wd) ==
    lq \o Flatten([j \in 1 .. Len(wd[1]) |-> [c \in Comps |-> wd[c][j]]])

flatx(lq, wd) == Flatten([c \in Comps |-> <<lq[c]>> \o wd[c]])

\* x.reshape((Ncomponents, Ncompartments+1))
rectangle(x, p) ==
    [c \in Comps |-> [k \in 1 .. (Ncomp(p) + 1) |-> x[(c - 1) * (Ncomp(p) + 1) + k]]]

unflatx(x, p) ==
    LET rect == rectangle(x, p)
    IN  << [c \in Comps |-> rect[c][1]], [c \in Comps |-> Tail(rect[c])] >>

\* cl = Nl/liquor_volume, cw = Nw/wood_compartment_volume, both in 1/24 of 0.01 mol
\* per volume (24 is a multiple of every volume of ParameterSets, so the quotients
\* are exact)
concentrations(x, p) ==
    LET Nl == unflatx(x, p)[1]
        Nw == unflatx(x, p)[2]
    IN  << [c \in Comps |-> (Nl[c] * 24) \div p.liquor_volume],
           [c \in Comps |-> [j \in 1 .. Ncomp(p) |->
                                (Nw[c][j] * 24) \div wood_compartment_volume(p)]] >>

(***************************************************************************)
(* Temperature schedule.  The parameter sets keep Tmax - Ti a multiple of  *)
(* toTmax*60, so the slope is a whole number of K/s and \div is exact.     *)
(***************************************************************************)
temp_minutes(t, p) ==
    IF t < p.toTmax * 60
    THEN p.Ti + ((p.Tmax - p.Ti) \div p.toTmax) * t
    ELSE p.Tmax

\* the value temp(t) returns (and appends to temp_store)
temp(t, p) ==
    IF t < p.toTmax * 60
    THEN p.Ti + ((p.Tmax - p.Ti) \div (p.toTmax * 60)) * t
    ELSE p.Tmax

(***************************************************************************)
(* Kinetics.                                                               *)
(***************************************************************************)
\* b**e for a numpy float64 base b (0.01 mol) and exponent e/100, in 1e-2:
\* nan for a negative base, the rounded real power otherwise
PowTable ==
    [e \in {11, 40, 50, 70} |->
        CASE e = 11 -> (0 :> 0) @@ (1 :> 60) @@ (100 :> 100) @@ (200 :> 108)
          [] e = 40 -> (0 :> 0) @@ (1 :> 16) @@ (100 :> 100) @@ (200 :> 132)
          [] e = 50 -> (0 :> 0) @@ (1 :> 10) @@ (100 :> 100) @@ (200 :> 141)
          [] e = 70 -> (0 :> 0) @@ (1 :> 4) @@ (100 :> 100) @@ (200 :> 162)]

Pow(b, e) == IF b < 0 THEN NaN ELSE PowTable[e][b]

\* the Gustafsson rate coefficients at the temperatures the schedule of
\* ParameterSets produces, in 1e-6
\* (36.2*T**0.5)*numpy.exp(-4807.69/T)
GustafBulk == (383 :> 2505) @@ (413 :> 6473) @@ (442 :> 14373) @@ (443 :> 14747)
\* numpy.exp(35.19-17200/T)
GustafTrans1 == (383 :> 60) @@ (413 :> 1570) @@ (442 :> 24137) @@ (443 :> 26353)
\* numpy.exp(29.23-14400/T)
GustafTrans2 == (383 :> 232) @@ (413 :> 3564) @@ (442 :> 35113) @@ (443 :> 37793)
\* numpy.exp(19.64-10804/T)
GustafResid == (383 :> 190) @@ (413 :> 1474) @@ (442 :> 8201) @@ (443 :> 8667)

\* knum = 500*((L*100)/(L*100 + C*100)) + 5, in 1e-2; 0/0 is nan
kappa(L, C) ==
    IF L * 100 + C * 100 = 0
    THEN NaN
    ELSE 500 * ((L * 100 * 100) \div (L * 100 + C * 100)) + 500

\* mass_frac = Nw.sum(axis=1)*componentsMM/parameters['wood_mass']: the sum runs
\* over ALL wood compartments of the state x
mass_frac(x, p) ==
    LET Nw == unflatx(x, p)[2]
    IN  [c \in Comps |-> (SumSeq(Nw[c]) * componentsMM[c]) \div p.wood_mass]

\* r3 = (kr3*r1 + kr4*r2)*parameters['density']/parameters['porinf']
alkali_rate(r1, r2, p) ==
    Quot(Quot(Mul(Add(Mul(-478, r1), Mul(1810, r2)), p.density), p.porinf), 100000)

bulk_rates(C, T, p, y, g) ==
    LET kr1 == g * GustafBulk[T] + y * 10000
        kr2 == g * 253 + y * 2
        r1 == Mul(kr1, C[1])
        r2 == Quot(Mul(Mul((kr1 * kr2) \div 100, C[1]), Pow(C[3], 11)), 100)
    IN  <<r1, r2, alkali_rate(r1, r2, p)>>

transition_rates(C, T, p, y, g) ==
    LET kr11 == g * GustafTrans1[T] + y * 10000
        kr12 == g * GustafTrans2[T] + y * 10000
        kr2 == g * 47 + y * 2
        r1 == Add(Mul((kr11 * C[3]) \div 100, C[1]),
                  Quot(Mul(Quot(Mul(kr12 * C[1], Pow(C[3], 50)), 100),
                           Pow(C[4], 40)), 100))
        r2 == Quot(Mul(kr2, r1), 100)
    IN  <<r1, r2, alkali_rate(r1, r2, p)>>

residual_rates(C, T, p, y, g) ==
    LET kr1 == g * GustafResid[T] + y * 10000
        kr2 == g * 219 + y * 2
        r1 == Mul(Quot(Mul(kr1, Pow(C[3], 70)), 100), C[1])
        r2 == Quot(Mul(kr2, r1), 100)
    IN  <<r1, r2, alkali_rate(r1, r2, p)>>

phase_strict(mf, p) ==
    IF mf > p.phase_limit_1 THEN "bulk"
    ELSE IF mf > p.phase_limit_2 THEN "transition"
    ELSE "residual"

\* the branch of the if/elif/else chain that runs for lignin mass fraction mf
phase(mf, p) ==
    IF mf >= p.phase_limit_1 THEN "bulk"
    ELSE IF mf >= p.phase_limit_2 THEN "transition"
    ELSE "residual"

\* reaction_rates(C, x, T) with y and g bound: the kappa number it appends to
\* kappa_store, the branch it takes and the rates it returns
reaction_rates(C, x, T, p, y, g) ==
    LET mf == mass_frac(x, p)
        ph == phase(mf[1], p)
    IN  [kappa |-> kappa(mf[1], mf[2]),
         phase |-> ph,
         r     |-> CASE ph = "bulk" -> bulk_rates(C, T, p, y, g)
                     [] ph = "transition" -> transition_rates(C, T, p, y, g)
                     [] ph = "residual" -> residual_rates(C, T, p, y, g)]

(***************************************************************************)
(* Transport.                                                              *)
(***************************************************************************)
\* D = zeros((Ncomponents, 1)); D[Ncomponents-2] = 0.02   (1e-2; index from 0)
fick_constant == [c \in Comps |-> IF c = (Ncomponents - 2) + 1 THEN 2 ELSE 0]

\* k = zeros((Ncomponents,)); k[Ncomponents-2] = 0.1       (1e-2; index from 0)
mass_transfer_constant == [c \in Comps |-> IF c = (Ncomponents - 2) + 1 THEN 10 ELSE 0]

\* transfer_rate = K*parameters['A']*(cl - cw[:, 0])        (1e-8 mol/s)
transfer_rate(cl, cw, p) ==
    [c \in Comps |-> mass_transfer_constant[c] * p.A * (cl[c] - cw[c][1]) * 10000]

\* numpy.gradient along the compartment axis with spacing dz = 1/Ncompartments:
\* one-sided differences at the two ends, centred differences inside.  The value
\* is twice the gradient, so that the centred difference stays a whole number.
gradient_z(row, N) ==
    [j \in 1 .. N |->
        IF j = 1 THEN 2 * N * (row[2] - row[1])
        ELSE IF j = N THEN 2 * N * (row[N] - row[N - 1])
        ELSE N * (row[j + 1] - row[j - 1])]

\* diffusion = -parameters['A']*D*gradcwz                    (1e-8 mol/s)
fick_flux(cw, p) ==
    [c \in Comps |->
        LET gradcwz == gradient_z(cw[c], Ncomp(p))
        IN  [j \in 1 .. Ncomp(p) |-> -(p.A * fick_constant[c] * gradcwz[j] * 5000)]]

no_boundary(m) == m

\* diffusion[:, -1] = 0
zero_last_column(m) ==
    [c \in DOMAIN m |-> [j \in DOMAIN m[c] |-> IF j = Len(m[c]) THEN 0 ELSE m[c][j]]]

\* numpy.roll(m, 1) without an axis: the array is flattened, shifted by one
\* position cyclically, and given its shape back
roll(m) ==
    LET f == Flatten(m)
        L == Len(f)
        N == Len(m[1])
        g == [i \in 1 .. L |-> f[((i - 2) % L) + 1]]
    IN  [c \in DOMAIN m |-> [j \in 1 .. N |-> g[(c - 1) * N + j]]]

first_column(cw, j) == [c \in Comps |-> cw[c][1]]

\* the 1-d slice of cw along axis 0 that apply_along_axis hands to
\* reaction_rates for compartment j
column(cw, j) == [c \in Comps |-> cw[c][j]]

\* numpy.apply_along_axis(reaction_rates, 0, cw, x, T): one call per compartment,
\* in compartment order
apply_along_axis(cw, x, T, p, y, g) ==
    [j \in 1 .. Ncomp(p) |-> reaction_rates(column(cw, j), x, T, p, y, g)]

\* reaction = S.dot(r)*wood_compartment_volume, r[j] the rates of compartment j
reaction_term(r, p) ==
    [c \in Comps |->
        [j \in 1 .. Ncomp(p) |->
            Mul(SumSeq([k \in 1 .. Nreactions |-> Mul(S[c][k], r[j][k])]),
                wood_compartment_volume(p))]]

liquor_gain(tr) == tr

\* dNliquordt = -transfer_rate
liquor_balance(tr) == [c \in DOMAIN tr |-> -tr[c]]

\* dNwooddt = reaction - diffusion + numpy.roll(diffusion, 1);
\* dNwooddt[:, 0] += transfer_rate
wood_balance(reaction, diffusion, rolled, tr) ==
    [c \in Comps |->
        [j \in DOMAIN diffusion[c] |->
            LET d == Add(Sub(reaction[c][j], diffusion[c][j]), rolled[c][j])
            IN  IF j = 1 THEN Add(d, tr[c]) ELSE d]]

\* the locals of dxdt(x, t) up to the call of apply_along_axis
dxdt_transport(x, t, p) ==
    LET cl == unflatx(x, p)[1]
        cw == unflatx(x, p)[2]
        diffusion == zero_last_column(fick_flux(cw, p))
    IN  [x |-> x, t |-> t, T |-> temp(t, p),
         transfer_rate |-> transfer_rate(cl, cw, p),
         diffusion |-> diffusion,
         rolled |-> roll(diffusion)]

\* dxdt(x, t) when y and g are bound: all its locals and its return value
dxdt(x, t, p, y, g) ==
    LET tp == dxdt_transport(x, t, p)
        cw == unflatx(x, p)[2]
        rr == apply_along_axis(cw, x, tp.T, p, y, g)
        r == [j \in 1 .. Ncomp(p) |-> rr[j].r]
        reaction == reaction_term(r, p)
        dNliquordt == liquor_balance(tp.transfer_rate)
        dNwooddt == wood_balance(reaction, tp.diffusion, tp.rolled, tp.transfer_rate)
    IN  [status |-> "returned", x |-> x, t |-> t, T |-> tp.T,
         transfer_rate |-> tp.transfer_rate,
         diffusion |-> tp.diffusion, rolled |-> tp.rolled,
         phase |-> [j \in 1 .. Ncomp(p) |-> rr[j].phase],
         kappa |-> [j \in 1 .. Ncomp(p) |-> rr[j].kappa],
         r |-> r, reaction |-> reaction,
         ret |-> flatx(dNliquordt, dNwooddt)]

\* dxdt(x, t) when y and g are unbound: the first reaction_rates call has appended
\* its kappa number and chosen its branch when the branch's first statement
\* raises NameError
dxdt_NameError(x, t, p) ==
    LET tp == dxdt_transport(x, t, p)
        mf == mass_frac(x, p)
    IN  [status |-> "NameError", x |-> x, t |-> t, T |-> tp.T,
         transfer_rate |-> tp.transfer_rate,
         diffusion |-> tp.diffusion, rolled |-> tp.rolled,
         phase |-> <<phase(mf[1], p)>>,
         kappa |-> <<kappa(mf[1], mf[2])>>,
         r |-> <<>>, reaction |-> <<>>, ret |-> <<>>]

NoFrame ==
    [status |-> "none", x |-> <<>>, t |-> 0, T |-> 0, transfer_rate |-> <<>>,
     diffusion |-> <<>>, rolled |-> <<>>, phase |-> <<>>, kappa |-> <<>>,
     r |-> <<>>, reaction |-> <<>>, ret |-> <<>>]

(***************************************************************************)
(* Inputs: the parameter files and the states and times at which the      *)
(* integrator (or any other caller) evaluates dxdt.                        *)
(***************************************************************************)
BaseParameters ==
    [Andersson_model |-> 1, Gustafsson_model |-> 0, Ncompartments |-> 3,
     liquor_volume |-> 12, wood_volume |-> 12, wood_mass |-> 1, A |-> 2,
     phase_limit_1 |-> 4, phase_limit_2 |-> 2, density |-> 3, porinf |-> 2,
     Ti |-> 383, Tmax |-> 443, toTmax |-> 1]

\* parameters.csv as a run of the script reads it
ParameterSets ==
    { [BaseParameters EXCEPT !.Andersson_model = a, !.Gustafsson_model = gm,
                             !.Ncompartments = n] :
        a \in {0, 1}, gm \in {0, 1}, n \in {2, 3} }

\* parameters.csv for single evaluations: one model selected, the liquor volume
\* twice or otherwise unequal to the volume of a wood compartment
EvalParameterSets ==
    { [q EXCEPT !.liquor_volume = lv] :
        q \in {r \in ParameterSets : r.Andersson_model + r.Gustafsson_model = 1},
        lv \in {8, 12} }

\* parameters.csv for the schedule alone: ramps down, flat, up and steeply up
TempParameterSets ==
    { [BaseParameters EXCEPT !.Ti = ti, !.toTmax = m, !.Tmax = ti + s * m * 60] :
        ti \in {300, 383}, m \in {1, 2}, s \in {-1, 0, 1, 2} }

\* parameters.csv for the codec alone
CodecParameterSets ==
    { [BaseParameters EXCEPT !.Ncompartments = n] : n \in {2, 3} }

\* Nliq0 = numpy.array([0., 0., 1., 1.])
Nliq0 == <<0, 0, 100, 100>>

\* Nwood0 = zeros((Ncomponents, Ncompartments)); Nwood0[0, :] = Nwood0[1, :] = 0.01
Nwood0(p) == [c \in Comps |-> [j \in 1 .. Ncomp(p) |-> IF c <= 2 THEN 1 ELSE 0]]

Uniform(v, N) == [j \in 1 .. N |-> v]

\* trial states of a run: the initial state, the same with the lignin gone or
\* with more lignin in the first or the second wood compartment, and each of
\* these with alkali entering the first wood compartment
OdeintStates(p) ==
    { flatx(Nliq0, << lig, Uniform(1, Ncomp(p)),
                      [j \in 1 .. Ncomp(p) |-> IF j = 1 THEN a ELSE 0],
                      Uniform(0, Ncomp(p)) >>) :
        lig \in {Uniform(0, Ncomp(p)), Uniform(1, Ncomp(p))}
                  \cup { [j \in 1 .. Ncomp(p) |-> IF j = k THEN 2 ELSE 1] : k \in {1, 2} },
        a \in {0, 200} }

\* times of a run: the start, mid-ramp, and the end of the ramp
TrialTimes == {0, 30, 60}

\* states at which a single evaluation of dxdt is examined: every lignin
\* profile up to MaxLignin, every alkali profile over {-1, 0, 2} mol (a negative
\* content is what an integrator's overshoot produces), carbohydrate and
\* sulfide uniform over the wood
TrialStates(p) ==
    { flatx(<<0, 0, 400, 200>>, <<lig, Uniform(cb, Ncomp(p)), alk, Uniform(su, Ncomp(p))>>) :
        lig \in [1 .. Ncomp(p) -> 0 .. MaxLignin],
        cb \in {0, 1},
        alk \in [1 .. Ncomp(p) -> {-100, 0, 200}],
        su \in {-100, 0, 100} }

EvalTimes == {0, 60}

(***************************************************************************)
(* The script.                                                             *)
(***************************************************************************)
Init ==
    /\ parameters \in ParameterSets
    /\ yg = <<>>
    /\ pc = "select"
    /\ temp_store = <<>>
    /\ kappa_store = <<>>
    /\ tcalls = <<>>
    /\ frame = NoFrame
    /\ prev = NoFrame
    /\ liquor = <<>>
    /\ wood = <<>>
    /\ flat = <<>>
    /\ decoded = <<>>

\* "Check what model is used": neither branch taken only prints a message
SelectModel ==
    /\ pc = "select"
    /\ yg' = IF parameters.Andersson_model = 1 THEN <<1, 0>>
             ELSE IF parameters.Gustafsson_model = 1 THEN <<0, 1>>
             ELSE <<>>
    /\ pc' = "setup"
    /\ UNCHANGED <<parameters, temp_store, kappa_store, tcalls, frame, prev,
                   liquor, wood, flat, decoded>>

\* initial conditions, x0 = flatx(Nliq0, Nwood0), the two empty histories
Setup ==
    /\ pc = "setup"
    /\ liquor' = Nliq0
    /\ wood' = Nwood0(parameters)
    /\ flat' = flatx(Nliq0, Nwood0(parameters))
    /\ temp_store' = <<>>
    /\ kappa_store' = <<>>
    /\ pc' = "odeint"
    /\ UNCHANGED <<parameters, yg, tcalls, frame, prev, decoded>>

\* one call dxdt(x, t), with its appends to the two histories
Call(x, t) ==
    /\ frame' = IF yg # <<>>
                THEN dxdt(x, t, parameters, yg[1], yg[2])
                ELSE dxdt_NameError(x, t, parameters)
    /\ prev' = frame
    /\ temp_store' = Append(temp_store, frame'.T)
    /\ kappa_store' = kappa_store \o frame'.kappa
    /\ tcalls' = Append(tcalls, t)
    /\ pc' = IF yg # <<>> THEN pc ELSE "NameError"
    /\ UNCHANGED <<parameters, yg, liquor, wood, flat, decoded>>

\* odeint's first evaluation: the initial state at t[0] = 0
OdeintStart ==
    /\ pc = "odeint"
    /\ tcalls = <<>>
    /\ Call(flat, 0)

\* odeint's later evaluations: trial states at trial times, in any order
OdeintTrial ==
    /\ pc = "odeint"
    /\ tcalls # <<>>
    /\ Len(tcalls) < MaxCalls
    /\ \E x \in OdeintStates(parameters), t \in TrialTimes : Call(x, t)

OdeintReturn ==
    /\ pc = "odeint"
    /\ tcalls # <<>>
    /\ pc' = "done"
    /\ UNCHANGED <<parameters, yg, temp_store, kappa_store, tcalls, frame, prev,
                   liquor, wood, flat, decoded>>

Next == SelectModel \/ Setup \/ OdeintStart \/ OdeintTrial \/ OdeintReturn

Spec == Init /\ [][Next]_vars

(***************************************************************************)
(* One evaluation of dxdt at an arbitrary trial state, under a parameter  *)
(* file that selects exactly one model.                                    *)
(***************************************************************************)
InitEval ==
    /\ parameters \in EvalParameterSets
    /\ yg = <<>>
    /\ pc = "select"
    /\ temp_store = <<>>
    /\ kappa_store = <<>>
    /\ tcalls = <<>>
    /\ frame = NoFrame
    /\ prev = NoFrame
    /\ liquor = <<>>
    /\ wood = <<>>
    /\ flat = <<>>
    /\ decoded = <<>>

Evaluate ==
    /\ pc = "odeint"
    /\ tcalls = <<>>
    /\ \E x \in TrialStates(parameters), t \in EvalTimes : Call(x, t)

NextEval == SelectModel \/ Setup \/ Evaluate

SpecEval == InitEval /\ [][NextEval]_vars

(***************************************************************************)
(* The temperature schedule alone, evaluated at two times.                 *)
(***************************************************************************)
InitTemp ==
    /\ parameters \in TempParameterSets
    /\ yg = <<>>
    /\ pc = "temp"
    /\ temp_store = <<>>
    /\ kappa_store = <<>>
    /\ tcalls = <<>>
    /\ frame = NoFrame
    /\ prev = NoFrame
    /\ liquor = <<>>
    /\ wood = <<>>
    /\ flat = <<>>
    /\ decoded = <<>>

\* temp(t): compute the temperature and append it to temp_store
TempCall(t) ==
    /\ temp_store' = Append(temp_store, temp(t, parameters))
    /\ tcalls' = Append(tcalls, t)
    /\ UNCHANGED <<parameters, yg, pc, kappa_store, frame, prev, liquor, wood, flat,
                   decoded>>

TempFirst == pc = "temp" /\ tcalls = <<>> /\ \E t \in 0 .. MaxTime : TempCall(t)

TempSecond == pc = "temp" /\ Len(tcalls) = 1 /\ \E t \in 0 .. MaxTime : TempCall(t)

NextTemp == TempFirst \/ TempSecond

SpecTemp == InitTemp /\ [][NextTemp]_vars

(***************************************************************************)
(* The codec alone: encode a liquor vector and a wood matrix, decode.      *)
(***************************************************************************)
InitCodec ==
    /\ parameters \in CodecParameterSets
    /\ yg = <<>>
    /\ pc = "codec"
    /\ temp_store = <<>>
    /\ kappa_store = <<>>
    /\ tcalls = <<>>
    /\ frame = NoFrame
    /\ prev = NoFrame
    /\ liquor \in [Comps -> {0, 1}]
    /\ wood \in [Comps -> [1 .. Ncomp(parameters) -> {0, 1}]]
    /\ flat = <<>>
    /\ decoded = <<>>

Encode ==
    /\ pc = "codec"
    /\ flat' = flatx(liquor, wood)
    /\ pc' = "encoded"
    /\ UNCHANGED <<parameters, yg, temp_store, kappa_store, tcalls, frame, prev,
                   liquor, wood, decoded>>

Decode ==
    /\ pc = "encoded"
    /\ decoded' = unflatx(flat, parameters)
    /\ pc' = "decoded"
    /\ UNCHANGED <<parameters, yg, temp_store, kappa_store, tcalls, frame, prev,
                   liquor, wood, flat>>

NextCodec == Encode \/ Decode

SpecCodec == InitCodec /\ [][NextCodec]_vars

(***************************************************************************)
(* Properties.                                                             *)
(***************************************************************************)
Returned == frame.status = "returned"
FrameWood == unflatx(frame.x, parameters)[2]
FrameN == Ncomp(parameters)
\* the contents of wood compartment j in the wood matrix w
CompartmentOf(w, j) == [c \in Comps |-> w[c][j]]

\* C1: decoding what flatx encoded gives back the same liquor vector and the same
\* wood matrix, and the flat vector has Ncomponents*(Ncompartments+1) entries.
C1_RoundTrip ==
    /\ pc \in {"encoded", "decoded"} => Len(flat) = Ncomponents * (FrameN + 1)
    /\ pc = "decoded" => decoded = <<liquor, wood>>

\* a decoded pair whose wood matrix is not symmetric and differs from the liquor
C1_Witness ==
    /\ pc = "decoded"
    /\ FrameN = 3
    /\ wood[1][2] # wood[2][1]
    /\ wood[1][3] # wood[3][1]
    /\ liquor[2] # wood[2][1]

\* C2: the entries of the returned derivative sum to the sum of the reaction
\* term S.r*wood_compartment_volume (transfer and diffusion cancel), and to zero
\* when every reaction rate is zero.  A sum over a NaN rate is NaN on both sides.
C2_SumIsReaction ==
    Returned =>
        /\ SumSeq(frame.ret) = SumSeq(Flatten(frame.reaction))
        /\ (\A j \in 1 .. FrameN : \A k \in 1 .. Nreactions : frame.r[j][k] = 0)
               => SumSeq(frame.ret) = 0

\* a returned derivative with transfer, diffusion and a numeric reaction at work
C2_Witness ==
    /\ Returned
    /\ frame.transfer_rate[3] # 0
    /\ frame.diffusion[3][1] # 0
    /\ SumSeq(Flatten(frame.reaction)) \notin {0, NaN}

\* C3: at equal liquor and wood concentrations of every component and zero
\* reaction rates the derivative is the zero vector.
C3_ZeroAtEqualConcentration ==
    LET cl == concentrations(frame.x, parameters)[1]
        cw == concentrations(frame.x, parameters)[2]
    IN  ( /\ Returned
          /\ \A c \in Comps : \A j \in 1 .. FrameN : cl[c] = cw[c][j]
          /\ \A j \in 1 .. FrameN : \A k \in 1 .. Nreactions : frame.r[j][k] = 0 )
        => \A i \in DOMAIN frame.ret : frame.ret[i] = 0

\* C4: what diffusion adds to wood compartment j of component c is the flux
\* leaving compartment j-1 minus the flux leaving compartment j of the same
\* component; nothing flows into compartment 0, nothing leaves the last one, and
\* the shifted flux array carries no flux across rows or around the end.
C4_DiffusionInOut ==
    frame.status # "none" =>
        \A c \in Comps : \A j \in 1 .. FrameN :
            LET inflow == IF j = 1 THEN 0 ELSE frame.diffusion[c][j - 1]
                outflow == IF j = FrameN THEN 0 ELSE frame.diffusion[c][j]
                extra == IF j = 1 THEN frame.transfer_rate[c] ELSE 0
            IN  /\ frame.diffusion[c][FrameN] = 0
                /\ frame.rolled[c][j] = inflow
                /\ (Returned /\ frame.reaction[c][j] # NaN) =>
                       unflatx(frame.ret, parameters)[2][c][j]
                           - frame.reaction[c][j] - extra = inflow - outflow

\* three compartments, alkali flowing between the first two, and an alkali
\* difference at the last compartment that the boundary condition cancels
C4_Witness ==
    /\ Returned
    /\ FrameN = 3
    /\ frame.diffusion[3][1] # 0
    /\ frame.diffusion[3][2] # 0
    /\ FrameWood[3][3] # FrameWood[3][2]

\* C5: with phase_limit_1 > phase_limit_2, a lignin mass fraction at or above
\* phase_limit_1 (exactly phase_limit_1 included) takes the bulk law, one below
\* phase_limit_1 and at or above phase_limit_2 (exactly phase_limit_2 included)
\* the transition law, one below phase_limit_2 the residual law.
C5_RegimeThresholds ==
    (Returned /\ parameters.phase_limit_1 > parameters.phase_limit_2) =>
        LET mf == mass_frac(frame.x, parameters)[1]
            L1 == parameters.phase_limit_1
            L2 == parameters.phase_limit_2
        IN  \A j \in 1 .. FrameN :
                LET C == CompartmentOf(FrameWood, j)
                IN  /\ mf >= L1 =>
                          /\ frame.phase[j] = "bulk"
                          /\ frame.r[j] = bulk_rates(C, frame.T, parameters, yg[1], yg[2])
                    /\ (mf < L1 /\ mf >= L2) =>
                          /\ frame.phase[j] = "transition"
                          /\ frame.r[j] = transition_rates(C, frame.T, parameters, yg[1], yg[2])
                    /\ mf < L2 =>
                          /\ frame.phase[j] = "residual"
                          /\ frame.r[j] = residual_rates(C, frame.T, parameters, yg[1], yg[2])

\* a lignin mass fraction exactly at phase_limit_2, evaluated under the
\* transition law
C5_Witness ==
    /\ Returned
    /\ mass_frac(frame.x, parameters)[1] = parameters.phase_limit_2
    /\ frame.phase[1] = "transition"
    /\ frame.r[1][1] \notin {0, NaN}

\* the column C with its negative alkali and sulfide concentrations set to zero
Clamped(C) == [c \in Comps |-> IF c \in {3, 4} /\ C[c] < 0 THEN 0 ELSE C[c]]

\* C6: for a compartment with a negative alkali or sulfide concentration the
\* rates are numbers and equal the rates for the concentration set to zero.
C6_NegativeClamped ==
    Returned =>
        \A j \in 1 .. FrameN :
            LET C == CompartmentOf(FrameWood, j)
            IN  (C[3] < 0 \/ C[4] < 0) =>
                    /\ \A k \in 1 .. Nreactions : frame.r[j][k] # NaN
                    /\ frame.r[j] = reaction_rates(Clamped(C), frame.x, frame.T,
                                                   parameters, yg[1], yg[2]).r

ExactlyOneModel == parameters.Andersson_model + parameters.Gustafsson_model = 1

\* C7: a parameter file selecting exactly one model gives (y, g) = (1, 0) or
\* (0, 1); one selecting neither or both is rejected before dxdt is ever invoked.
C7_InvalidSelectionRejected ==
    /\ (pc # "select" /\ ExactlyOneModel) =>
           yg = <<parameters.Andersson_model, parameters.Gustafsson_model>>
    /\ ~ExactlyOneModel => (tcalls = <<>> /\ frame.status = "none")

\* C8: with Tmax >= Ti and a positive ramp duration the schedule is
\* non-decreasing in t, is Ti at t = 0, never exceeds Tmax, is Tmax from the end
\* of the ramp on, and rises by no more than the ramp's slope from one second to
\* the next (no jump at the end of the ramp).
C8_RampMonotone ==
    LET R == parameters.toTmax * 60
    IN  (pc = "temp" /\ parameters.Tmax >= parameters.Ti /\ R > 0) =>
            \A i \in DOMAIN tcalls : \A k \in DOMAIN tcalls :
                /\ tcalls[i] <= tcalls[k] => temp_store[i] <= temp_store[k]
                /\ tcalls[i] = 0 => temp_store[i] = parameters.Ti
                /\ temp_store[i] <= parameters.Tmax
                /\ tcalls[i] >= R => temp_store[i] = parameters.Tmax
                /\ tcalls[k] = tcalls[i] + 1 =>
                       (temp_store[k] - temp_store[i]) * R
                           <= parameters.Tmax - parameters.Ti

\* the last second of a rising ramp followed by the first second of the hold
C8_Witness ==
    /\ pc = "temp"
    /\ parameters.Tmax > parameters.Ti
    /\ Len(tcalls) = 2
    /\ tcalls[1] = parameters.toTmax * 60 - 1
    /\ tcalls[2] = parameters.toTmax * 60
    /\ temp_store[1] < temp_store[2]
    /\ temp_store[2] = parameters.Tmax

PrevWood == unflatx(prev.x, parameters)[2]

\* the two latest dxdt calls returned, were made at the same time, and their
\* states agree on wood compartment j
AgreeOn(j) ==
    /\ prev.status = "returned"
    /\ Returned
    /\ prev.t = frame.t
    /\ CompartmentOf(PrevWood, j) = CompartmentOf(FrameWood, j)

SameRates(j) == frame.r[j] = prev.r[j] /\ frame.phase[j] = prev.phase[j]

C10_AppendOnly ==
    [][ IF tcalls' # tcalls
        THEN /\ Len(temp_store') = Len(temp_store) + 1
             /\ SubSeq(temp_store', 1, Len(temp_store)) = temp_store
             /\ Len(kappa_store') = Len(kappa_store) + FrameN
             /\ SubSeq(kappa_store', 1, Len(kappa_store)) = kappa_store
        ELSE temp_store' = temp_store /\ kappa_store' = kappa_store ]_vars

====
